---- MODULE Spec2Model ----
(***************************************************************************)
(* Model of frontend/streamlit_app.py: the Walmart demand-forecasting      *)
(* dashboard.  Streamlit re-executes the whole script on every widget      *)
(* interaction, so each action below is one complete run of the script     *)
(* with the widget values of that run.                                     *)
(*                                                                         *)
(* Numbers.  The script computes in binary floating point; the model       *)
(* computes in exact decimal fixed point.  Widget values and curve         *)
(* abscissae are integers counting halves (temperature 70.0 is 140, fuel   *)
(* price 3.5 is 7).  Coefficients are integers counting 1/10000.  Money    *)
(* (avg_sales, predicted_sales, curve ordinates) is a record               *)
(* [nan, w, f] standing for w + f/Den with 0 <= f < Den, or for NaN.       *)
(* Two limbs keep every intermediate product inside TLC's 32-bit integers. *)
(***************************************************************************)
EXTENDS Integers, Sequences, FiniteSets, TLC

VARIABLES
    phase,            \* how far the script run got
    df,               \* the loaded dataset (load_data, cached for the session)
    store_id, holiday_flag, temperature, fuel_price, cpi, unemployment,
    store_df, avg_sales, predicted_sales, recent,
    t_sales, f_sales, c_sales, u_sales,
    plots             \* the four (x, y) series handed to ax.plot

vars == <<phase, df, store_id, holiday_flag, temperature, fuel_price, cpi,
          unemployment, store_df, avg_sales, predicted_sales, recent,
          t_sales, f_sales, c_sales, u_sales, plots>>

(***************************************************************************)
(* Bounds                                                                  *)
(***************************************************************************)
\* longest enumerated dataset
MaxRecords == 2
\* points per sensitivity curve (the script uses 100)
NumPoints == 5
\* length of the long dataset that makes tail(20) truncate
LongLen == 26

(***************************************************************************)
(* Decimal arithmetic                                                      *)
(***************************************************************************)
Den == 4 * 10000

NaN == [nan |-> TRUE, w |-> 0, f |-> 0]

Norm(w, f) == [nan |-> FALSE, w |-> w + (f \div Den), f |-> f % Den]

Money(n) == Norm(n, 0)

Add(a, b) == IF a.nan \/ b.nan THEN NaN ELSE Norm(a.w + b.w, a.f + b.f)

\* coefficient C (in 1/10000) times the rational num/den, den in {1, 2, 4}
Mul(C, num, den) ==
    LET cw == C \div 10000
        cf == C % 10000
        m  == 4 \div den
        A  == cw * num * m
        B  == cf * num * m
    IN  Norm(A \div 4, (A % 4) * 10000 + B)

Leq(a, b) == a.w < b.w \/ (a.w = b.w /\ a.f <= b.f)

(***************************************************************************)
(* The model section of the script (lines 72-92)                           *)
(***************************************************************************)
COEF_HOLIDAY == 66340369
COEF_FUEL == 118300000
COEF_CPI == -98499
COEF_UNEMP == -4189919
TEMP_OPTIMAL == 140
TEMP_CURVATURE == -1968391

int(b) == IF b THEN 1 ELSE 0

\* variant: the deviation enters linearly instead of squared
temp_effect_linear(t) == Mul(TEMP_CURVATURE, t - TEMP_OPTIMAL, 2)

\* variant: the temperature is first clamped to the slider range
temp_effect_clamped(t) ==
    LET tc == IF t < 40 THEN 40 ELSE IF t > 240 THEN 240 ELSE t
    IN  Mul(TEMP_CURVATURE, (tc - TEMP_OPTIMAL) * (tc - TEMP_OPTIMAL), 4)

temp_effect(t) == Mul(TEMP_CURVATURE, (t - TEMP_OPTIMAL) * (t - TEMP_OPTIMAL), 4)

\* variant: the CPI term is left out
base_prediction_no_cpi(CONST, h, f, c, u) ==
    Add(Add(Add(CONST,
                Mul(COEF_HOLIDAY, int(h), 1)),
            Mul(COEF_FUEL, f, 2)),
        Mul(COEF_UNEMP, u, 2))

\* variant: the holiday uplift scales with the fuel price
base_prediction_holiday_scaled(CONST, h, f, c, u) ==
    Add(Add(Add(Add(CONST,
                    Mul(COEF_HOLIDAY, int(h) * f, 2)),
                Mul(COEF_FUEL, f, 2)),
            Mul(COEF_CPI, c, 2)),
        Mul(COEF_UNEMP, u, 2))

base_prediction(CONST, h, f, c, u) ==
    Add(Add(Add(Add(CONST,
                    Mul(COEF_HOLIDAY, int(h), 1)),
                Mul(COEF_FUEL, f, 2)),
            Mul(COEF_CPI, c, 2)),
        Mul(COEF_UNEMP, u, 2))

(***************************************************************************)
(* Data frame operations                                                   *)
(***************************************************************************)
Min(S) == CHOOSE x \in S : \A y \in S : x <= y
Max(S) == CHOOSE x \in S : \A y \in S : y <= x

StoreColumn(d) == {d[i].Store : i \in 1..Len(d)}

\* variant: the filter keeps every store up to s
FilterStore_upto(d, s) == SelectSeq(d, LAMBDA r : r.Store <= s)

\* df[df["Store"] == s]
FilterStore(d, s) == SelectSeq(d, LAMBDA r : r.Store = s)

\* sort_values("Date"): ascending; rows of equal Date keep their order here
\* (pandas does not promise an order among them)
\* insertion of r behind every row whose Date is not later
InsertByDate(r, s) ==
    LET k == Cardinality({i \in 1..Len(s) : s[i].Date <= r.Date})
    IN  SubSeq(s, 1, k) \o <<r>> \o SubSeq(s, k + 1, Len(s))

RECURSIVE sort_values(_)
sort_values(s) ==
    IF s = <<>> THEN <<>>
    ELSE InsertByDate(s[Len(s)], sort_values(SubSeq(s, 1, Len(s) - 1)))

RECURSIVE SumSales(_)
SumSales(s) == IF s = <<>> THEN 0 ELSE s[1].Weekly_Sales + SumSales(Tail(s))

\* Series.mean(): NaN on an empty series
mean(s) ==
    IF s = <<>> THEN NaN
    ELSE LET n == Len(s)
             t == SumSales(s)
         IN  Norm(t \div n, ((t % n) * Den) \div n)

\* variant: the first n rows instead of the last n
tail_head(s, n) == SubSeq(s, 1, IF Len(s) > n THEN n ELSE Len(s))

tail(s, n) == SubSeq(s, IF Len(s) > n THEN Len(s) - n + 1 ELSE 1, Len(s))

WINDOW == 20

\* np.linspace(start, stop, num) on the grid of halves
linspace(start, stop, num) ==
    [i \in 1..num |-> 2 * start + ((i - 1) * 2 * (stop - start)) \div (num - 1)]

t_range == linspace(20, 120, NumPoints)
f_range == linspace(2, 5, NumPoints)
c_range == linspace(200, 300, NumPoints)
u_range == linspace(3, 15, NumPoints)

\* base_prediction() + temp_effect(t_range), broadcast over the range
sweep_temperature(base, rng) == [i \in DOMAIN rng |-> Add(base, temp_effect(rng[i]))]

\* variant: the current value is not subtracted
sweep_linear_abs(pred, COEF, rng, current) ==
    [i \in DOMAIN rng |-> Add(pred, Mul(COEF, rng[i], 2))]

\* predicted_sales + COEF * (range - current), broadcast over the range
sweep_linear(pred, COEF, rng, current) ==
    [i \in DOMAIN rng |-> Add(pred, Mul(COEF, rng[i] - current, 2))]

\* variant: the points are emitted in descending order of x
plot_sensitivity_desc(x, y) ==
    [i \in DOMAIN x |-> [value |-> x[Len(x) + 1 - i], prediction |-> y[Len(x) + 1 - i]]]

\* ax.plot(x, y): the i-th point pairs x[i] with y[i]
plot_sensitivity(x, y) == [i \in DOMAIN x |-> [value |-> x[i], prediction |-> y[i]]]

(***************************************************************************)
(* One run of the script below the sidebar (lines 69-207)                  *)
(***************************************************************************)
Script(d, s, h, t, f, c, u, sdf, avg, pred, rec, ts, fs, cs, us, pl) ==
    /\ sdf = sort_values(FilterStore(d, s))
    /\ avg = mean(sdf)
    /\ pred = Add(base_prediction(avg, h, f, c, u), temp_effect(t))
    /\ rec = tail(sdf, WINDOW)
    /\ ts = sweep_temperature(base_prediction(avg, h, f, c, u), t_range)
    /\ fs = sweep_linear(pred, COEF_FUEL, f_range, f)
    /\ cs = sweep_linear(pred, COEF_CPI, c_range, c)
    /\ us = sweep_linear(pred, COEF_UNEMP, u_range, u)
    /\ pl = [temperature  |-> plot_sensitivity(t_range, ts),
             fuel_price   |-> plot_sensitivity(f_range, fs),
             cpi          |-> plot_sensitivity(c_range, cs),
             unemployment |-> plot_sensitivity(u_range, us)]

(***************************************************************************)
(* The session: load_data, the sidebar widgets, and one run per change     *)
(***************************************************************************)
Stores == {4, 5, 6}
Dates == {1, 2}

\* datasets of n rows: any store and date per row, Weekly_Sales 100, 200, ...
DataOfLen(n) ==
    {[i \in 1..n |-> [Store |-> st[i], Date |-> dt[i], Weekly_Sales |-> 100 * i]] :
        st \in [1..n -> Stores], dt \in [1..n -> Dates]}

\* a dataset in which store 4 has more than WINDOW rows, dates out of order
LongData ==
    [i \in 1..LongLen |-> [Store |-> IF i % 6 = 0 THEN 6 ELSE 4,
                           Date |-> (i * 7) % 13,
                           Weekly_Sales |-> 100 * i]]

\* store 5 sells 100, 200, 300; rows of stores 4 and 6 lie in between
ExampleData ==
    << [Store |-> 4, Date |-> 3, Weekly_Sales |-> 1000],
       [Store |-> 5, Date |-> 3, Weekly_Sales |-> 300],
       [Store |-> 6, Date |-> 1, Weekly_Sales |-> 50],
       [Store |-> 5, Date |-> 1, Weekly_Sales |-> 100],
       [Store |-> 5, Date |-> 2, Weekly_Sales |-> 200] >>

Datasets == UNION {DataOfLen(n) : n \in 0..MaxRecords} \cup {LongData, ExampleData}

\* slider positions the model enumerates, inside the slider ranges
TemperatureValues == {40, 140, 191}
FuelValues == {7, 10}
CpiValues == {440, 501}
UnemploymentValues == {6, 14}

NoPlots == [temperature |-> <<>>, fuel_price |-> <<>>, cpi |-> <<>>, unemployment |-> <<>>]

\* nothing below load_data() has run
NotRun(p, d) ==
    /\ phase = p
    /\ df = d
    /\ store_id = 0 /\ holiday_flag = FALSE
    /\ temperature = 0 /\ fuel_price = 0 /\ cpi = 0 /\ unemployment = 0
    /\ store_df = <<>> /\ avg_sales = NaN /\ predicted_sales = NaN
    /\ recent = <<>>
    /\ t_sales = <<>> /\ f_sales = <<>> /\ c_sales = <<>> /\ u_sales = <<>>
    /\ plots = NoPlots

\* first run: every widget at its default value
FirstRun(d) ==
    /\ phase = "rendered"
    /\ df = d
    /\ store_id = Min(StoreColumn(d)) /\ holiday_flag = FALSE
    /\ temperature = 140 /\ fuel_price = 7 /\ cpi = 440 /\ unemployment = 14
    /\ Script(df, store_id, holiday_flag, temperature, fuel_price, cpi, unemployment,
              store_df, avg_sales, predicted_sales, recent,
              t_sales, f_sales, c_sales, u_sales, plots)

Init ==
    \/ NotRun("stopped", <<>>)                      \* csv_data missing: st.stop()
    \/ \E d \in Datasets :
          IF d = <<>> THEN NotRun("crashed", d)     \* int(NaN) raises ValueError
          ELSE FirstRun(d)

\* the script re-executed with widget values s, h, t, f, c, u
Rerun(s, h, t, f, c, u) ==
    /\ phase = "rendered"
    /\ store_id' = s /\ holiday_flag' = h
    /\ temperature' = t /\ fuel_price' = f /\ cpi' = c /\ unemployment' = u
    /\ Script(df, s, h, t, f, c, u,
              store_df', avg_sales', predicted_sales', recent',
              t_sales', f_sales', c_sales', u_sales', plots')
    /\ UNCHANGED <<phase, df>>

\* variant: the store widget changes but the script is not re-executed
SetStore_stale(s) ==
    /\ phase = "rendered"
    /\ s \in Min(StoreColumn(df))..Max(StoreColumn(df))
    /\ s # store_id
    /\ store_id' = s
    /\ UNCHANGED <<phase, df, holiday_flag, temperature, fuel_price, cpi, unemployment,
                   store_df, avg_sales, predicted_sales, recent,
                   t_sales, f_sales, c_sales, u_sales, plots>>

SetStore(s) ==
    /\ phase = "rendered"
    /\ s \in Min(StoreColumn(df))..Max(StoreColumn(df))
    /\ s # store_id
    /\ Rerun(s, holiday_flag, temperature, fuel_price, cpi, unemployment)

ToggleHoliday ==
    Rerun(store_id, ~holiday_flag, temperature, fuel_price, cpi, unemployment)

SetTemperature(t) ==
    /\ t # temperature
    /\ Rerun(store_id, holiday_flag, t, fuel_price, cpi, unemployment)

SetFuelPrice(f) ==
    /\ f # fuel_price
    /\ Rerun(store_id, holiday_flag, temperature, f, cpi, unemployment)

SetCpi(c) ==
    /\ c # cpi
    /\ Rerun(store_id, holiday_flag, temperature, fuel_price, c, unemployment)

SetUnemployment(u) ==
    /\ u # unemployment
    /\ Rerun(store_id, holiday_flag, temperature, fuel_price, cpi, u)

Next ==
    \/ \E s \in Stores : SetStore(s)
    \/ ToggleHoliday
    \/ \E t \in TemperatureValues : SetTemperature(t)
    \/ \E f \in FuelValues : SetFuelPrice(f)
    \/ \E c \in CpiValues : SetCpi(c)
    \/ \E u \in UnemploymentValues : SetUnemployment(u)

Spec == Init /\ [][Next]_vars

(***************************************************************************)
(* The prediction as a function of its inputs: line 92 applied to a        *)
(* baseline and a parameter vector drawn from sets that reach outside the  *)
(* slider ranges.                                                          *)
(***************************************************************************)
Baselines == {Money(100), Money(20000), Norm(233, 13333)}
WideTemperature == {-60, 40, 139, 140, 240, 340}
WideFuel == {0, 4, 7, 10, 16}
WideCpi == {100, 440, 600, 801}
WideUnemployment == {0, 6, 14, 30, 41}

PredictInput(b, h, t, f, c, u) ==
    /\ avg_sales = b /\ holiday_flag = h
    /\ temperature = t /\ fuel_price = f /\ cpi = c /\ unemployment = u

PredictInit ==
    /\ phase = "input"
    /\ df = <<>> /\ store_id = 0 /\ store_df = <<>> /\ recent = <<>>
    /\ predicted_sales = NaN
    /\ t_sales = <<>> /\ f_sales = <<>> /\ c_sales = <<>> /\ u_sales = <<>>
    /\ plots = NoPlots
    /\ \E b \in Baselines, h \in BOOLEAN, t \in WideTemperature, f \in WideFuel,
          c \in WideCpi, u \in WideUnemployment : PredictInput(b, h, t, f, c, u)

\* predicted_sales = base_prediction() + temp_effect(temperature)
Evaluate ==
    /\ phase = "input"
    /\ phase' = "predicted"
    /\ predicted_sales' =
          Add(base_prediction(avg_sales, holiday_flag, fuel_price, cpi, unemployment),
              temp_effect(temperature))
    /\ UNCHANGED <<df, store_id, holiday_flag, temperature, fuel_price, cpi,
                   unemployment, store_df, avg_sales, recent,
                   t_sales, f_sales, c_sales, u_sales, plots>>

PredictNext == Evaluate

PredictSpec == PredictInit /\ [][PredictNext]_vars

(***************************************************************************)
(* Reference definitions used by the properties                            *)
(***************************************************************************)
\* Variant A of the specification, term by term in the order it is written
VariantA(baseline, holiday, t, f, c, u) ==
    Add(Add(Add(Add(Add(baseline,
                        Mul(66340369, IF holiday THEN 1 ELSE 0, 1)),
                    Mul(-1968391, (t - 140) * (t - 140), 4)),
                Mul(118300000, f, 2)),
            Mul(-98499, c, 2)),
        Mul(-4189919, u, 2))

RowsOf(d, s) == {i \in 1..Len(d) : d[i].Store = s}

RECURSIVE SalesOver(_, _)
SalesOver(d, I) ==
    IF I = {} THEN 0
    ELSE LET i == CHOOSE j \in I : TRUE
         IN  d[i].Weekly_Sales + SalesOver(d, I \ {i})

\* avg is total/n of the rows of store s, to the resolution 1/Den
IsMeanOfStore(avg, d, s) ==
    LET n     == Cardinality(RowsOf(d, s))
        total == SalesOver(d, RowsOf(d, s))
        r     == total - n * avg.w
    IN  /\ ~avg.nan
        /\ 0 <= r /\ r < n
        /\ n * avg.f <= r * Den
        /\ r * Den < n * avg.f + n

Rendered == phase = "rendered"
HasRows == RowsOf(df, store_id) # {}

InRange(t, f, c, u) ==
    /\ 40 <= t /\ t <= 240
    /\ 4 <= f /\ f <= 10
    /\ 400 <= c /\ c <= 600
    /\ 6 <= u /\ u <= 30

(***************************************************************************)
(* C1: the predicted sales the program computes equal the Variant A        *)
(* additive formula, nothing else added or blended in; the worked example  *)
(* (20000, holiday, 70, 3.5, 220, 7) gives 62939.1156.                     *)
(***************************************************************************)
C1_PredictionIsVariantA ==
    phase = "predicted" =>
        /\ predicted_sales =
              VariantA(avg_sales, holiday_flag, temperature, fuel_price, cpi, unemployment)
        /\ (/\ avg_sales = Money(20000) /\ holiday_flag /\ temperature = 140
            /\ fuel_price = 7 /\ cpi = 440 /\ unemployment = 14)
              => predicted_sales = Norm(62939, 4 * 1156)

C1_Witness ==
    /\ phase = "predicted"
    /\ avg_sales = Money(20000) /\ holiday_flag /\ temperature = 140
    /\ fuel_price = 7 /\ cpi = 440 /\ unemployment = 14
    /\ predicted_sales = Norm(62939, 4 * 1156)

(***************************************************************************)
(* C2: every point of each of the four sensitivity curves equals the       *)
(* prediction with only the swept input replaced by the point's abscissa.  *)
(***************************************************************************)
C2_CurvePointIsPrediction ==
    Rendered =>
        \A i \in 1..NumPoints :
            /\ t_sales[i] = VariantA(avg_sales, holiday_flag, t_range[i],
                                     fuel_price, cpi, unemployment)
            /\ f_sales[i] = VariantA(avg_sales, holiday_flag, temperature,
                                     f_range[i], cpi, unemployment)
            /\ c_sales[i] = VariantA(avg_sales, holiday_flag, temperature,
                                     fuel_price, c_range[i], unemployment)
            /\ u_sales[i] = VariantA(avg_sales, holiday_flag, temperature,
                                     fuel_price, cpi, u_range[i])

C2_Witness ==
    /\ Rendered /\ HasRows /\ holiday_flag
    /\ temperature = 191 /\ fuel_price = 10 /\ cpi = 501 /\ unemployment = 6
    /\ f_sales[1] # predicted_sales
    /\ f_sales[NumPoints] = predicted_sales

(***************************************************************************)
(* C3: every plotted curve has as many points as its range, in the order   *)
(* of the range: point i carries range[i] and the prediction for range[i]. *)
(***************************************************************************)
RangeOf == [temperature |-> t_range, fuel_price |-> f_range,
            cpi |-> c_range, unemployment |-> u_range]

PredictionAt(dim, v) ==
    VariantA(avg_sales, holiday_flag,
             IF dim = "temperature" THEN v ELSE temperature,
             IF dim = "fuel_price" THEN v ELSE fuel_price,
             IF dim = "cpi" THEN v ELSE cpi,
             IF dim = "unemployment" THEN v ELSE unemployment)

C3_CurveKeepsRange ==
    Rendered =>
        \A dim \in DOMAIN RangeOf :
            /\ Len(plots[dim]) = Len(RangeOf[dim])
            /\ \A i \in 1..Len(RangeOf[dim]) :
                  /\ plots[dim][i].value = RangeOf[dim][i]
                  /\ plots[dim][i].prediction = PredictionAt(dim, RangeOf[dim][i])

C3_Witness ==
    /\ Rendered /\ HasRows
    /\ \A dim \in DOMAIN RangeOf :
          /\ Len(plots[dim]) = NumPoints
          /\ plots[dim][1].value < plots[dim][NumPoints].value
          /\ plots[dim][1].prediction # plots[dim][2].prediction

(***************************************************************************)
(* C4: for a selected store with at least one row, avg_sales is the mean   *)
(* of Weekly_Sales over exactly the rows of that store; 100, 200, 300 for  *)
(* store 5 gives 200.                                                      *)
(***************************************************************************)
C4_BaselineIsStoreMean ==
    (Rendered /\ HasRows) =>
        /\ IsMeanOfStore(avg_sales, df, store_id)
        /\ (df = ExampleData /\ store_id = 5) => avg_sales = Money(200)

C4_Witness ==
    /\ Rendered /\ df = ExampleData /\ store_id = 5 /\ avg_sales = Money(200)

(***************************************************************************)
(* C5: when the selected store has no rows, the run fails and produces no  *)
(* forecast and no sensitivity curve; stated as: a run that rendered had   *)
(* rows for its store.                                                     *)
(***************************************************************************)
C5_EmptyStoreNotRendered == Rendered => HasRows

(***************************************************************************)
(* C6: switching the holiday toggle, all else equal, moves the predicted   *)
(* sales by exactly 6634.0369.                                             *)
(***************************************************************************)
C6_HolidayStep ==
    [][(/\ Rendered /\ HasRows
        /\ holiday_flag' # holiday_flag
        /\ UNCHANGED <<df, store_id, temperature, fuel_price, cpi, unemployment>>)
       => IF holiday_flag'
          THEN predicted_sales' = Add(predicted_sales, Norm(6634, 4 * 369))
          ELSE predicted_sales = Add(predicted_sales', Norm(6634, 4 * 369))]_vars

C6_Witness ==
    /\ Rendered /\ HasRows /\ holiday_flag
    /\ predicted_sales =
          Add(VariantA(avg_sales, FALSE, temperature, fuel_price, cpi, unemployment),
              Norm(6634, 4 * 369))

(***************************************************************************)
(* C7: the temperature effect is never positive and is zero exactly at     *)
(* 70 degrees, so the prediction at 70 is at least the prediction at any   *)
(* other temperature.                                                      *)
(***************************************************************************)
C7_TemperaturePenalty ==
    phase = "predicted" =>
        /\ Leq(temp_effect(temperature), Money(0))
        /\ (temp_effect(temperature) = Money(0)) <=> (temperature = 140)
        /\ Leq(predicted_sales,
               Add(base_prediction(avg_sales, holiday_flag, fuel_price, cpi, unemployment),
                   temp_effect(140)))
        /\ \A t \in WideTemperature :
              Leq(Add(avg_sales, temp_effect(t)), Add(avg_sales, temp_effect(140)))

C7_Witness ==
    /\ phase = "predicted" /\ temperature = 139
    /\ temp_effect(temperature) # Money(0)
    /\ predicted_sales #
          Add(base_prediction(avg_sales, holiday_flag, fuel_price, cpi, unemployment),
              temp_effect(140))

(***************************************************************************)
(* C8: recent is the last WINDOW rows of the selected store's rows sorted  *)
(* by date: only rows of that store, ascending dates, length the smaller   *)
(* of WINDOW and the number of the store's rows, and no row left out is    *)
(* dated later than a row kept.                                            *)
(***************************************************************************)
C8_RecentWindow ==
    Rendered =>
        LET mine == RowsOf(df, store_id)
            kept == {recent[j] : j \in 1..Len(recent)}
        IN  /\ \A j \in 1..Len(recent) : recent[j].Store = store_id
            /\ kept \subseteq {df[i] : i \in mine}
            /\ Cardinality(kept) = Len(recent)
            /\ \A j \in 1..Len(recent) - 1 : recent[j].Date <= recent[j + 1].Date
            /\ Len(recent) = IF Cardinality(mine) < 20 THEN Cardinality(mine) ELSE 20
            /\ \A i \in mine :
                  df[i] \notin kept => \A j \in 1..Len(recent) : df[i].Date <= recent[j].Date

C8_Witness ==
    /\ Rendered /\ df = LongData /\ store_id = 4
    /\ Len(recent) = 20 /\ Len(store_df) > 20
    /\ recent[1].Date < recent[20].Date

(***************************************************************************)
(* C9: inputs outside the slider ranges are neither rejected nor clamped:  *)
(* the prediction is the additive formula at the values given.             *)
(***************************************************************************)
C9_NoClamping ==
    /\ phase \in {"input", "predicted"}
    /\ (phase = "predicted"
        /\ ~InRange(temperature, fuel_price, cpi, unemployment)) =>
          /\ ~predicted_sales.nan
          /\ predicted_sales =
                VariantA(avg_sales, holiday_flag, temperature, fuel_price, cpi, unemployment)

C9_Witness ==
    /\ phase = "predicted"
    /\ temperature = 340 /\ fuel_price = 16 /\ cpi = 801 /\ unemployment = 41
    /\ predicted_sales # VariantA(avg_sales, holiday_flag, 240, 10, 600, 30)
    /\ predicted_sales = VariantA(avg_sales, holiday_flag, 340, 16, 801, 41)

(***************************************************************************)
(* C10: after any sequence of store and parameter changes nothing shown    *)
(* is stale: avg_sales is the mean of the selected store, predicted_sales  *)
(* is the prediction for that baseline and the current parameters, every   *)
(* curve is computed from the same; a change that keeps the store keeps    *)
(* the baseline.                                                           *)
(***************************************************************************)
Fresh ==
    /\ IF HasRows THEN IsMeanOfStore(avg_sales, df, store_id) ELSE avg_sales.nan
    /\ predicted_sales =
          VariantA(avg_sales, holiday_flag, temperature, fuel_price, cpi, unemployment)
    /\ \A dim \in DOMAIN RangeOf : \A i \in 1..Len(RangeOf[dim]) :
          plots[dim][i] = [value |-> RangeOf[dim][i],
                           prediction |-> PredictionAt(dim, RangeOf[dim][i])]

C10_NeverStale ==
    /\ [](Rendered => Fresh)
    /\ [][store_id' = store_id => avg_sales' = avg_sales]_vars

C10_Witness ==
    /\ Rendered /\ HasRows
    /\ store_id # Min(StoreColumn(df))
    /\ holiday_flag /\ temperature # 140 /\ fuel_price # 7
    /\ avg_sales # mean(sort_values(FilterStore(df, Min(StoreColumn(df)))))

====
